---- MODULE Spec2Model ----
(***************************************************************************)
(* Model of sn-persist (src/snpersist.go): Sync keeps a storm database of  *)
(* encrypted items in step with the Standard Notes server through          *)
(* gosn.Sync.  The storm database is modelled by its two buckets: "Item",  *)
(* keyed by UUID, and "SyncToken", keyed by the token string itself.       *)
(***************************************************************************)
EXTENDS Integers, Sequences, FiniteSets

MaxUUID == 2
MaxContent == 2
MaxToken == 2
MaxPull == 2
MaxSteps == 4

UUIDs == 1..MaxUUID
Contents == 1..MaxContent
Tokens == 1..MaxToken

\* the zero values of Go's string and time.Time
NoToken == 0
ZeroTime == 0
\* time.Now(), any instant that is not the zero time
Now == 1

\* a nil error, and the errors the program and its collaborators return
NoErr == ""
ErrInvalidSession == "invalid session"
ErrBoth == "passing a DB pointer and DB path does not make sense"
ErrNeither == "DB pointer or DB path are required"
ErrTokens == "expected maximum of one sync token"
ErrRemote == "gosn sync failed"
ErrStore == "store i/o error"
ErrNotFound == "not found"

VARIABLES exists, items, tokens, so, err, call, steps, last, lastTok, streak,
          retry, inflight

vars == <<exists, items, tokens, so, err, call, steps, last, lastTok, streak,
          retry, inflight>>

(***************************************************************************)
(* Data                                                                    *)
(***************************************************************************)

\* gosn.EncryptedItem: the wire representation of an item
EncryptedItem(u, c, d) ==
    [UUID |-> u, Content |-> c, ContentType |-> "Note", EncItemKey |-> 10 + c,
     Deleted |-> d, CreatedAt |-> 20 + u, UpdatedAt |-> 30 + c]

\* the record Sync and initialiseDB build for a pulled item: the wire fields,
\* Dirty and DirtiedDate left at their zero values
ItemFromPulled(i) ==
    [UUID |-> i.UUID, Content |-> i.Content, ContentType |-> i.ContentType,
     EncItemKey |-> i.EncItemKey, Deleted |-> i.Deleted, CreatedAt |-> i.CreatedAt,
     UpdatedAt |-> i.UpdatedAt, Dirty |-> FALSE, DirtiedDate |-> ZeroTime]

\* mutant of EncryptedFromDirty: the whole record is sent, local fields included
EncryptedFromRecord(d) == d

\* the wire item Sync builds for a dirty record
EncryptedFromDirty(d) ==
    [UUID |-> d.UUID, Content |-> d.Content, ContentType |-> d.ContentType,
     EncItemKey |-> d.EncItemKey, Deleted |-> d.Deleted, CreatedAt |-> d.CreatedAt,
     UpdatedAt |-> d.UpdatedAt]

\* ConvertItemsToPersistItems followed by the caller's Dirty/DirtiedDate marking
DirtyItem(i) ==
    [ItemFromPulled(i) EXCEPT !.Dirty = TRUE, !.DirtiedDate = Now]

\* "convert dirty to gosn.Items": one wire item per dirty record, in order
RECURSIVE ItemsToPush(_, _)
ItemsToPush(dirty, i) ==
    IF i > Len(dirty) THEN <<>>
    ELSE <<EncryptedFromDirty(dirty[i])>> \o ItemsToPush(dirty, i + 1)

(***************************************************************************)
(* The storm database.  A call threads a store state                       *)
(*   [exists, items, tokens, n, failAt, err]                               *)
(* through its store operations: n counts the operations performed so far  *)
(* in the call and the failAt-th one fails with an i/o error (failAt = 0:  *)
(* none fails).                                                            *)
(***************************************************************************)

IOFails(s) == s.n + 1 = s.failAt

Tick(s, e) == [s EXCEPT !.n = @ + 1, !.err = e]

\* the record stored under an id
Get(its, u) == CHOOSE r \in its : r.UUID = u

Has(its, u) == \E r \in its : r.UUID = u

\* storm.Open: opens the database file, creating it when it does not exist
Open(s) ==
    IF IOFails(s) THEN Tick(s, ErrStore)
    ELSE [Tick(s, NoErr) EXCEPT !.exists = TRUE]

\* mutant of SaveItem: the saved item becomes the only record of the bucket
SaveItemReplacesAll(s, item) ==
    IF IOFails(s) THEN Tick(s, ErrStore)
    ELSE [Tick(s, NoErr) EXCEPT !.items = {item}]

\* mutant of SaveItem: saving a pulled tombstone removes the record
SaveItemDropsDeleted(s, item) ==
    IF IOFails(s) THEN Tick(s, ErrStore)
    ELSE [Tick(s, NoErr) EXCEPT
            !.items = {r \in s.items : r.UUID # item.UUID}
                        \cup (IF item.Deleted THEN {} ELSE {item})]

\* mutant of SaveItem: the item is added as one more record, whatever is
\* stored under its UUID
SaveItemAppends(s, item) ==
    IF IOFails(s) THEN Tick(s, ErrStore)
    ELSE [Tick(s, NoErr) EXCEPT !.items = s.items \cup {item}]

\* mutant of SaveItem: a record already stored under the UUID is kept
SaveItemInsertOnly(s, item) ==
    IF IOFails(s) THEN Tick(s, ErrStore)
    ELSE IF Has(s.items, item.UUID) THEN Tick(s, NoErr)
    ELSE [Tick(s, NoErr) EXCEPT !.items = s.items \cup {item}]

\* db.Save(&item): Item has `storm:"id,unique"` on UUID, so saving replaces the
\* whole record stored under that UUID, or inserts it
SaveItem(s, item) ==
    IF IOFails(s) THEN Tick(s, ErrStore)
    ELSE [Tick(s, NoErr) EXCEPT
            !.items = {r \in s.items : r.UUID # item.UUID} \cup {item}]

\* mutant of SaveSyncToken: the token is not stored
SaveSyncTokenSkipped(s, sv) ==
    IF IOFails(s) THEN Tick(s, ErrStore) ELSE Tick(s, NoErr)

\* db.Save(&sv): SyncToken has `storm:"id,unique"` on the token string itself,
\* so a record is replaced only by one with the same token value
SaveSyncToken(s, sv) ==
    IF IOFails(s) THEN Tick(s, ErrStore)
    ELSE [Tick(s, NoErr) EXCEPT !.tokens = s.tokens \cup {sv}]

\* db.UpdateField(&Item{UUID: u}, field, value): one transaction that reads the
\* record, sets the one field and writes the record back
UpdateField(s, u, field, value) ==
    IF IOFails(s) THEN Tick(s, ErrStore)
    ELSE IF ~Has(s.items, u) THEN Tick(s, ErrNotFound)
    ELSE [Tick(s, NoErr) EXCEPT
            !.items = {r \in s.items : r.UUID # u}
                        \cup {[Get(s.items, u) EXCEPT ![field] = value]}]

\* the keys of a bucket in key order, as storm's cursor walks them
RECURSIVE KeyOrder(_)
KeyOrder(keys) ==
    IF keys = {} THEN <<>>
    ELSE LET m == CHOOSE x \in keys : \A y \in keys : x <= y
         IN  <<m>> \o KeyOrder(keys \ {m})

RECURSIVE Records(_, _, _)
Records(its, ks, i) ==
    IF i > Len(ks) THEN <<>> ELSE <<Get(its, ks[i])>> \o Records(its, ks, i + 1)

\* mutant of FindDirty: the query stops at the first matching record
FindDirtyFirst(s) ==
    IF IOFails(s) THEN [s |-> Tick(s, ErrStore), out |-> <<>>]
    ELSE LET keys == {r.UUID : r \in {x \in s.items : x.Dirty}}
             found == Records(s.items, KeyOrder(keys), 1)
         IN  [s |-> Tick(s, IF found = <<>> THEN ErrNotFound ELSE NoErr),
              out |-> IF found = <<>> THEN found ELSE <<found[1]>>]

\* db.Find("Dirty", true, &dirty): "not found" when no record matches
FindDirty(s) ==
    IF IOFails(s) THEN [s |-> Tick(s, ErrStore), out |-> <<>>]
    ELSE LET keys == {r.UUID : r \in {x \in s.items : x.Dirty}}
             found == Records(s.items, KeyOrder(keys), 1)
         IN  [s |-> Tick(s, IF found = <<>> THEN ErrNotFound ELSE NoErr),
              out |-> found]

\* db.All(&syncTokens): an empty bucket is an empty result, not an error
AllSyncTokens(s) ==
    IF IOFails(s) THEN [s |-> Tick(s, ErrStore), out |-> <<>>]
    ELSE [s |-> Tick(s, NoErr), out |-> KeyOrder(s.tokens)]

(***************************************************************************)
(* gosn.Sync, the remote exchange.  e is what the server does with the     *)
(* request: [ok, ack, Items, SyncToken].  It fails, or it returns the      *)
(* pulled Items, the pushed items it saved (those with a UUID in ack), the *)
(* pushed items it did not save, and a new sync token.                     *)
(***************************************************************************)

RECURSIVE Filter(_, _, _, _)
Filter(s, ids, keep, i) ==
    IF i > Len(s) THEN <<>>
    ELSE (IF (s[i].UUID \in ids) = keep THEN <<s[i]>> ELSE <<>>)
            \o Filter(s, ids, keep, i + 1)

GosnSync(gSI, e) ==
    IF ~e.ok
    THEN [err |-> ErrRemote, Items |-> <<>>, SavedItems |-> <<>>,
          Unsaved |-> <<>>, SyncToken |-> NoToken]
    ELSE [err |-> NoErr, Items |-> e.Items,
          SavedItems |-> Filter(gSI.Items, e.ack, TRUE, 1),
          Unsaved |-> Filter(gSI.Items, e.ack, FALSE, 1),
          SyncToken |-> e.SyncToken]

(***************************************************************************)
(* Sync and initialiseDB.  A call returns                                  *)
(*   [s, err, so, exchanges, gSI, nTokens]:                                *)
(* the store it leaves, the error and SyncOutput it returns, and, for the  *)
(* properties, how many times it called gosn.Sync, the last request it     *)
(* sent and how many sync tokens it read.                                  *)
(***************************************************************************)

NoSO == [Items |-> <<>>, SavedItems |-> <<>>, Unsaved |-> <<>>, DB |-> FALSE]

NoGSI == [Items |-> <<>>, SyncToken |-> NoToken]

Return(s, e, o, x, g, nt) ==
    [s |-> s, err |-> e, so |-> o, exchanges |-> x, gSI |-> g, nTokens |-> nt]

\* "put new Items in db": one db.Save per pulled item, stopping at the first error
RECURSIVE SaveItems(_, _, _)
SaveItems(s, pulled, i) ==
    IF i > Len(pulled) THEN s
    ELSE LET s1 == SaveItem(s, ItemFromPulled(pulled[i]))
         IN  IF s1.err # NoErr THEN s1 ELSE SaveItems(s1, pulled, i + 1)

\* mutant of ClearDirty: the loop resets Dirty and leaves DirtiedDate
RECURSIVE ClearDirtyFlagOnly(_, _, _)
ClearDirtyFlagOnly(s, dirty, i) ==
    IF i > Len(dirty) THEN s
    ELSE LET s1 == UpdateField(s, dirty[i].UUID, "Dirty", FALSE)
         IN  IF s1.err # NoErr THEN s1 ELSE ClearDirtyFlagOnly(s1, dirty, i + 1)

\* the loop over dirty: two UpdateField calls per record read as dirty,
\* stopping at the first error
RECURSIVE ClearDirty(_, _, _)
ClearDirty(s, dirty, i) ==
    IF i > Len(dirty) THEN s
    ELSE LET s1 == UpdateField(s, dirty[i].UUID, "Dirty", FALSE)
         IN  IF s1.err # NoErr THEN s1
             ELSE LET s2 == UpdateField(s1, dirty[i].UUID, "DirtiedDate", ZeroTime)
                  IN  IF s2.err # NoErr THEN s2 ELSE ClearDirty(s2, dirty, i + 1)

\* mutant of initialiseDB: a failed exchange is tried a second time
initialiseDBRetries(s0, e) ==
    LET o == Open(s0)
    IN  IF o.err # NoErr THEN Return(o, o.err, NoSO, 0, NoGSI, 0)
        ELSE LET db == [NoSO EXCEPT !.DB = TRUE]
                 gSO == GosnSync(NoGSI, e)
             IN  IF gSO.err # NoErr THEN Return(o, gSO.err, db, 2, NoGSI, 0)
                 ELSE LET p == SaveItems(o, gSO.Items, 1)
                      IN  IF p.err # NoErr THEN Return(p, p.err, db, 1, NoGSI, 0)
                          ELSE LET t == SaveSyncToken(p, gSO.SyncToken)
                               IN  Return(t, t.err, db, 1, NoGSI, 0)

initialiseDB(s0, e) ==
    LET o == Open(s0)
    IN  IF o.err # NoErr THEN Return(o, o.err, NoSO, 0, NoGSI, 0)
        ELSE
        LET db == [NoSO EXCEPT !.DB = TRUE]
            gSI == NoGSI
            gSO == GosnSync(gSI, e)
        IN  IF gSO.err # NoErr THEN Return(o, gSO.err, db, 1, gSI, 0)
            ELSE
            LET p == SaveItems(o, gSO.Items, 1)
            IN  IF p.err # NoErr THEN Return(p, p.err, db, 1, gSI, 0)
                ELSE
                LET t == SaveSyncToken(p, gSO.SyncToken)
                IN  Return(t, t.err, db, 1, gSI, 0)

\* Sync after a successful exchange: clear the dirty records, report, save the
\* pulled items, save the sync token
\* mutant of ApplyResult: with no dirty record read, the pulled items are not
\* written and the token alone is saved
ApplyResultTokenOnlyWhenClean(s, dirty, gSI, gSO, nt) ==
    LET c == ClearDirty(s, dirty, 1)
    IN  IF c.err # NoErr THEN Return(c, c.err, NoSO, 1, gSI, nt)
        ELSE LET out == [Items |-> gSO.Items, SavedItems |-> gSO.SavedItems,
                         Unsaved |-> gSO.Unsaved, DB |-> TRUE]
                 p == IF dirty = <<>> THEN c ELSE SaveItems(c, gSO.Items, 1)
             IN  IF p.err # NoErr THEN Return(p, p.err, out, 1, gSI, nt)
                 ELSE LET t == SaveSyncToken(p, gSO.SyncToken)
                      IN  Return(t, t.err, out, 1, gSI, nt)

\* mutant of ApplyResult: the flags are cleared for the records the response
\* lists in SavedItems only
ApplyResultSavedOnly(s, dirty, gSI, gSO, nt) ==
    LET c == ClearDirty(s, gSO.SavedItems, 1)
    IN  IF c.err # NoErr THEN Return(c, c.err, NoSO, 1, gSI, nt)
        ELSE LET out == [Items |-> gSO.Items, SavedItems |-> gSO.SavedItems,
                         Unsaved |-> gSO.Unsaved, DB |-> TRUE]
                 p == SaveItems(c, gSO.Items, 1)
             IN  IF p.err # NoErr THEN Return(p, p.err, out, 1, gSI, nt)
                 ELSE LET t == SaveSyncToken(p, gSO.SyncToken)
                      IN  Return(t, t.err, out, 1, gSI, nt)

\* mutant of ApplyResult: the pulled items are saved first, the flags of the
\* dirty records cleared after
ApplyResultSaveFirst(s, dirty, gSI, gSO, nt) ==
    LET p == SaveItems(s, gSO.Items, 1)
    IN  IF p.err # NoErr THEN Return(p, p.err, NoSO, 1, gSI, nt)
        ELSE LET out == [Items |-> gSO.Items, SavedItems |-> gSO.SavedItems,
                         Unsaved |-> gSO.Unsaved, DB |-> TRUE]
                 c == ClearDirty(p, dirty, 1)
             IN  IF c.err # NoErr THEN Return(c, c.err, out, 1, gSI, nt)
                 ELSE LET t == SaveSyncToken(c, gSO.SyncToken)
                      IN  Return(t, t.err, out, 1, gSI, nt)

ApplyResult(s, dirty, gSI, gSO, nt) ==
    LET c == ClearDirty(s, dirty, 1)
    IN  IF c.err # NoErr THEN Return(c, c.err, NoSO, 1, gSI, nt)
        ELSE
        LET out == [Items |-> gSO.Items, SavedItems |-> gSO.SavedItems,
                    Unsaved |-> gSO.Unsaved, DB |-> TRUE]
            p == SaveItems(c, gSO.Items, 1)
        IN  IF p.err # NoErr THEN Return(p, p.err, out, 1, gSI, nt)
            ELSE
            LET t == SaveSyncToken(p, gSO.SyncToken)
            IN  Return(t, t.err, out, 1, gSI, nt)

\* mutant of Exchange: the error of gosn.Sync is not checked before the
\* result is applied
ExchangeUnchecked(s, dirty, syncTokens, e) ==
    LET syncToken == IF Len(syncTokens) = 1 THEN syncTokens[1] ELSE NoToken
        gSI == [Items |-> ItemsToPush(dirty, 1),
                SyncToken |-> syncToken]
        gSO == GosnSync(gSI, e)
    IN  ApplyResult(s, dirty, gSI, gSO, Len(syncTokens))

\* Sync from the sync token choice to the exchange.  With more than one token
\* err is set but control goes on, syncToken stays empty, and the assignment
\* from gosn.Sync overwrites err
Exchange(s, dirty, syncTokens, e) ==
    LET syncToken == IF Len(syncTokens) = 1 THEN syncTokens[1] ELSE NoToken
        gSI == [Items |-> ItemsToPush(dirty, 1),
                SyncToken |-> syncToken]
        gSO == GosnSync(gSI, e)
        nt == Len(syncTokens)
    IN  IF gSO.err # NoErr THEN Return(s, gSO.err, NoSO, 1, gSI, nt)
        ELSE ApplyResult(s, dirty, gSI, gSO, nt)

\* Sync on an existing handle, from "get dirty Items" on
SyncDB(s0, e) ==
    LET f == FindDirty(s0)
    IN  IF f.s.err # NoErr /\ f.s.err # ErrNotFound
        THEN Return(f.s, f.s.err, NoSO, 0, NoGSI, 0)
        ELSE
        LET a == AllSyncTokens(f.s)
        IN  IF a.s.err # NoErr
            THEN Return(a.s, a.s.err, NoSO, 0, NoGSI, 0)
            ELSE Exchange(a.s, f.out, a.out, e)

\* mutant of SyncCall: the store arguments are checked before the session
SyncCallArgsFirst(si, s0, e) ==
    IF si.hasDB /\ si.hasPath THEN Return(s0, ErrBoth, NoSO, 0, NoGSI, 0)
    ELSE IF ~si.hasDB /\ ~si.hasPath THEN Return(s0, ErrNeither, NoSO, 0, NoGSI, 0)
    ELSE IF ~si.valid THEN Return(s0, ErrInvalidSession, NoSO, 0, NoGSI, 0)
    ELSE IF ~si.hasDB THEN initialiseDB(s0, e)
    ELSE SyncDB(s0, e)

\* mutant of SyncCall: a handle given together with a path is used
SyncCallPrefersHandle(si, s0, e) ==
    IF ~si.valid THEN Return(s0, ErrInvalidSession, NoSO, 0, NoGSI, 0)
    ELSE IF ~si.hasDB
         THEN IF ~si.hasPath THEN Return(s0, ErrNeither, NoSO, 0, NoGSI, 0)
              ELSE initialiseDB(s0, e)
    ELSE SyncDB(s0, e)

\* Sync(si): si = [valid, hasDB, hasPath] says whether si.Session.Valid(),
\* si.DB != nil and si.DBPath != ""
SyncCall(si, s0, e) ==
    IF ~si.valid THEN Return(s0, ErrInvalidSession, NoSO, 0, NoGSI, 0)
    ELSE IF si.hasDB /\ si.hasPath THEN Return(s0, ErrBoth, NoSO, 0, NoGSI, 0)
    ELSE IF ~si.hasDB
         THEN IF ~si.hasPath THEN Return(s0, ErrNeither, NoSO, 0, NoGSI, 0)
              ELSE initialiseDB(s0, e)
    ELSE SyncDB(s0, e)

(***************************************************************************)
(* The state machine: the caller opens the database, application code      *)
(* saves dirty items, and Sync is called with every shape of SyncInput.    *)
(***************************************************************************)

\* the items the server holds: the newest content of an item, or its tombstone
ServerItems == {EncryptedItem(u, MaxContent, d) : u \in UUIDs, d \in BOOLEAN}

\* the pulled Items of a response: up to n items with distinct UUIDs
RECURSIVE PullSeqsUpTo(_)
PullSeqsUpTo(n) ==
    IF n = 0 THEN {<<>>}
    ELSE LET shorter == PullSeqsUpTo(n - 1)
             longest == {p \in shorter : Len(p) = n - 1}
             Fresh(p, x) == \A i \in 1..Len(p) : p[i].UUID # x.UUID
         IN  shorter \cup
                UNION {{Append(p, x) : x \in {y \in ServerItems : Fresh(p, y)}} :
                            p \in longest}

PullSeqs == PullSeqsUpTo(MaxPull)

\* the exchange fails
NoResponse == [ok |-> FALSE, ack |-> {}, Items |-> <<>>, SyncToken |-> NoToken]

\* what the server may do with a request that pushes the items with these ids:
\* it saves some of the pushed items and returns pulled items and a token
Responses(pushed) ==
    {NoResponse}
        \cup [ok : {TRUE}, ack : SUBSET pushed, Items : PullSeqs, SyncToken : Tokens]

\* retry describes a run of cycles repeated after a store failure and inflight
\* the calls of Sync that overlap; sequential calls use neither
NoRetry == [before |-> {}, ack |-> {}, Items |-> <<>>, SyncToken |-> NoToken,
            failAt |-> 0, failures |-> 0]

Init ==
    /\ exists = FALSE
    /\ items = {}
    /\ tokens = {}
    /\ so = NoSO
    /\ err = NoErr
    /\ call = [si |-> [valid |-> FALSE, hasDB |-> FALSE, hasPath |-> FALSE],
               exchanges |-> 0, ok |-> FALSE, gSI |-> NoGSI, nTokens |-> 0,
               priorTok |-> NoToken, pulled |-> <<>>, repeat |-> FALSE]
    /\ steps = 0
    /\ last = "init"
    /\ lastTok = NoToken
    /\ streak = 0
    /\ retry = NoRetry
    /\ inflight = <<>>

\* the caller's storm.Open(tempDBPath) on a path with no database
OpenDB ==
    /\ ~exists
    /\ steps < MaxSteps
    /\ exists' = TRUE
    /\ streak' = -1
    /\ steps' = steps + 1
    /\ last' = "open"
    /\ UNCHANGED <<items, tokens, so, err, call, lastTok, retry, inflight>>

\* application code saves an item marked Dirty, with DirtiedDate = time.Now():
\* a new record, or new content for a stored one
LocalEdit(u, c) ==
    /\ exists
    /\ steps < MaxSteps
    /\ items' = {r \in items : r.UUID # u}
                    \cup {DirtyItem(EncryptedItem(u, c, FALSE))}
    /\ steps' = steps + 1
    /\ last' = "edit"
    /\ UNCHANGED <<exists, tokens, so, err, call, lastTok, streak, retry, inflight>>

\* a run of successful calls: a bootstrap on a path with no database, then
\* cycles on the handle, the server returning a token the store does not hold
NextStreak(si, r, e) ==
    IF r.err # NoErr \/ r.exchanges = 0 \/ e.SyncToken \in tokens THEN -1
    ELSE IF ~si.hasDB THEN (IF streak = 0 /\ ~exists THEN 1 ELSE -1)
    ELSE (IF streak >= 1 THEN streak + 1 ELSE -1)

\* the call is a successful bootstrap that follows a successful bootstrap at
\* once, the server returning the same items both times
Rerun(si, r, e) ==
    /\ si = [valid |-> TRUE, hasDB |-> FALSE, hasPath |-> TRUE]
    /\ r.err = NoErr
    /\ last = "sync" /\ call.si = si /\ err = NoErr /\ call.exchanges = 1
    /\ e.Items = call.pulled

DirtyIds == {r.UUID : r \in {x \in items : x.Dirty}}

Start(failAt) ==
    [exists |-> exists, items |-> items, tokens |-> tokens,
     n |-> 0, failAt |-> failAt, err |-> NoErr]

\* the number of store operations the call performs when none fails
Ops(si, e) == SyncCall(si, Start(0), e).s.n

\* one call of Sync: the server answers e and the failAt-th store operation
\* fails.  The result is bound once, as the one element of a set
Call(si, e, failAt) ==
    \E r \in {SyncCall(si, Start(failAt), e)} :
        /\ exists' = r.s.exists
        /\ items' = r.s.items
        /\ tokens' = r.s.tokens
        /\ so' = r.so
        /\ err' = r.err
        /\ call' = [si |-> si, exchanges |-> r.exchanges,
                    ok |-> (r.exchanges > 0 /\ e.ok), gSI |-> r.gSI,
                    nTokens |-> r.nTokens, priorTok |-> lastTok,
                    pulled |-> IF r.err = NoErr /\ r.exchanges > 0 THEN e.Items
                               ELSE <<>>,
                    repeat |-> Rerun(si, r, e)]
        /\ lastTok' = IF r.err = NoErr /\ r.exchanges > 0 THEN e.SyncToken
                      ELSE lastTok
        /\ streak' = NextStreak(si, r, e)
        /\ steps' = steps + 1
        /\ last' = "sync"

HandleOnly == [valid |-> TRUE, hasDB |-> TRUE, hasPath |-> FALSE]

PathOnly == [valid |-> TRUE, hasDB |-> FALSE, hasPath |-> TRUE]

\* Sync(SyncInput{DB: db, Session: valid})
SyncHandle ==
    /\ exists
    /\ steps < MaxSteps
    /\ \E e \in Responses(DirtyIds) : \E failAt \in 0..Ops(HandleOnly, e) :
            Call(HandleOnly, e, failAt)
    /\ UNCHANGED <<retry, inflight>>

\* Sync(SyncInput{DBPath: path, Session: valid})
SyncPath ==
    /\ steps < MaxSteps
    /\ \E e \in Responses({}) : \E failAt \in 0..Ops(PathOnly, e) :
            Call(PathOnly, e, failAt)
    /\ UNCHANGED <<retry, inflight>>

\* a call whose SyncInput is not a valid session with exactly one of DB and
\* DBPath: an invalid session with any store arguments, or a valid one with
\* both or neither
SyncRejected(si) ==
    /\ ~si.valid \/ si.hasDB = si.hasPath
    /\ si.hasDB => exists
    /\ steps < MaxSteps
    /\ Call(si, NoResponse, 0)
    /\ UNCHANGED <<retry, inflight>>

Next ==
    \/ OpenDB
    \/ \E u \in UUIDs, c \in Contents : LocalEdit(u, c)
    \/ SyncHandle
    \/ SyncPath
    \/ \E si \in [valid : BOOLEAN, hasDB : BOOLEAN, hasPath : BOOLEAN] : SyncRejected(si)

Spec == Init /\ [][Next]_vars

(***************************************************************************)
(* Properties.  so, err and call describe the latest call of Sync; the     *)
(* state right after it has last = "sync", and Called is the step of a     *)
(* call.                                                                   *)
(***************************************************************************)

Called == steps' # steps /\ last' = "sync"

\* a call on an existing handle has just returned without error
CycleDone == last = "sync" /\ err = NoErr /\ call.si = HandleOnly

Clean(r) == ~r.Dirty /\ r.DirtiedDate = ZeroTime

\* C1: after a run of successful Sync calls on one store (a bootstrap, then
\* cycles on the handle, the server returning a fresh token each time) the
\* store holds exactly one SyncToken record
C1_OneSyncToken == streak >= 1 => Cardinality(tokens) = 1

\* C2: after a successful cycle every pushed record that the response lists as
\* Unsaved still has Dirty = TRUE: the flag is cleared for SavedItems only
C2_UnsavedStayDirty ==
    CycleDone =>
        \A i \in 1..Len(so.Unsaved) :
            /\ Has(items, so.Unsaved[i].UUID)
            /\ Get(items, so.Unsaved[i].UUID).Dirty

\* C3: of two consecutive cycles on the handle with no local edit in between,
\* the second pushes every item the first reported as Unsaved, unchanged
C3_UnsavedPushedAgain ==
    [][(CycleDone /\ Called /\ call'.si = HandleOnly /\ call'.exchanges = 1)
        => \A i \in 1..Len(so.Unsaved) :
                \E j \in 1..Len(call'.gSI.Items) :
                    call'.gSI.Items[j] = so.Unsaved[i]]_vars

\* C4: in every reachable store state, also one left by a store write that
\* failed in the middle of a cycle, a record with Dirty = FALSE has the zero
\* DirtiedDate
C4_CleanHasZeroDate == \A r \in items : ~r.Dirty => r.DirtiedDate = ZeroTime

\* C5: after a successful cycle every record whose id is in SavedItems is in
\* the store with Dirty = FALSE and the zero DirtiedDate
C5_SavedAreClean ==
    CycleDone =>
        \A i \in 1..Len(so.SavedItems) :
            /\ Has(items, so.SavedItems[i].UUID)
            /\ Clean(Get(items, so.SavedItems[i].UUID))

\* a store holding the one dirty record A, which the server accepts, ends with
\* A not dirty and SavedItems = [A]
C5_Witness ==
    /\ CycleDone
    /\ Len(so.SavedItems) = 1
    /\ Len(so.Items) = 0
    /\ Cardinality(items) = 1
    /\ \A r \in items : r.UUID = so.SavedItems[1].UUID /\ Clean(r)

StoreUnchanged == items' = items /\ tokens' = tokens

\* C6: when the exchange fails Sync returns its error and an output with no
\* pulled, saved or unsaved items, and the records, their flags and the sync
\* tokens of the store are what they were before the call, on the handle path
\* and on the bootstrap path
C6_ExchangeFailureLeavesStore ==
    [][(Called /\ call'.exchanges = 1 /\ ~call'.ok)
        => /\ err' = ErrRemote
           /\ so'.Items = <<>> /\ so'.SavedItems = <<>> /\ so'.Unsaved = <<>>
           /\ StoreUnchanged]_vars

\* a cycle that pushed a dirty record, with a token stored, met a failed
\* exchange
C6_Witness ==
    /\ last = "sync"
    /\ call.si = HandleOnly
    /\ call.exchanges = 1
    /\ ~call.ok
    /\ err = ErrRemote
    /\ Len(call.gSI.Items) > 0
    /\ \E r \in items : r.Dirty
    /\ tokens # {}

C8_StoreArguments ==
    [][(Called /\ call'.si.valid /\ call'.si.hasDB = call'.si.hasPath)
        => /\ err' = (IF call'.si.hasDB THEN ErrBoth ELSE ErrNeither)
           /\ call'.exchanges = 0
           /\ exists' = exists
           /\ StoreUnchanged]_vars

\* a valid session with both a handle and a path, on a store with a dirty
\* record
C8_Witness ==
    /\ last = "sync"
    /\ call.si.valid
    /\ call.si.hasDB
    /\ call.si.hasPath
    /\ err = ErrBoth
    /\ \E r \in items : r.Dirty

\* C9: the token a cycle sends to the exchange is the token returned by the
\* most recent successful call on the store, and the empty token only when
\* there was none
C9_SendsLastToken ==
    (last = "sync" /\ call.si = HandleOnly /\ call.exchanges = 1)
        => call.gSI.SyncToken = call.priorTok

\* C10: when Sync reads more than one SyncToken record it returns the "expected
\* maximum of one sync token" error, calls no exchange and changes no store
C10_TooManyTokens ==
    [][(Called /\ call'.si = HandleOnly /\ Cardinality(tokens) > 1
            /\ call'.nTokens > 1)
        => /\ err' = ErrTokens
           /\ call'.exchanges = 0
           /\ StoreUnchanged]_vars

WireFields ==
    {"UUID", "Content", "ContentType", "EncItemKey", "Deleted", "CreatedAt",
     "UpdatedAt"}

\* the wire item w carries the wire fields of record r and nothing else
Carries(w, r) ==
    /\ DOMAIN w = WireFields
    /\ \A f \in WireFields : w[f] = r[f]

\* C11: the push batch of a cycle is exactly the records that are dirty when
\* the cycle starts: one entry per dirty record and none for a clean one, each
\* entry with the record's seven wire fields unchanged and without Dirty and
\* DirtiedDate
C11_PushBatchIsDirtySet ==
    [][(Called /\ call'.si = HandleOnly /\ call'.exchanges = 1)
        => LET batch == call'.gSI.Items
           IN  /\ Len(batch) = Cardinality({r \in items : r.Dirty})
               /\ \A r \in items :
                    r.Dirty <=> \E j \in 1..Len(batch) : batch[j].UUID = r.UUID
               /\ \A j \in 1..Len(batch) :
                    /\ Has(items, batch[j].UUID)
                    /\ Carries(batch[j], Get(items, batch[j].UUID))]_vars

\* a cycle on a store holding one dirty and one clean record pushed the dirty
\* one alone
C11_Witness ==
    /\ CycleDone
    /\ call.exchanges = 1
    /\ Len(call.gSI.Items) = 1
    /\ Len(so.Items) = 0
    /\ Cardinality(items) = 2
    /\ so.SavedItems = call.gSI.Items

\* the SyncInput passes the precondition checks: a valid session and exactly
\* one of DB and DBPath
Accepted(si) == si.valid /\ si.hasDB # si.hasPath

\* C12 as the specification states it: every call that passes the precondition
\* checks issues exactly one exchange, a rejected call none
C12_ExactlyOneExchange ==
    last = "sync" =>
        call.exchanges = (IF Accepted(call.si) THEN 1 ELSE 0)

\* C12: no call issues more than one exchange and a call rejected by a
\* precondition issues none; a call that passes the precondition checks issues
\* exactly one unless a store operation before the exchange (storm.Open on the
\* bootstrap path, Find or All on the handle path) fails, and then it returns
\* that store error and issues none
C12_OneExchangeUnlessStoreFails ==
    last = "sync" =>
        /\ call.exchanges \in {0, 1}
        /\ ~Accepted(call.si) => call.exchanges = 0
        /\ (Accepted(call.si) /\ call.exchanges = 0)
                => err = ErrStore /\ so.Items = <<>> /\ ~call.ok

\* a cycle on the handle whose read of the dirty records failed returned the
\* store error without an exchange, the dirty record left as it was
C12_Witness ==
    /\ last = "sync"
    /\ call.si = HandleOnly
    /\ call.exchanges = 0
    /\ err = ErrStore
    /\ \E r \in items : r.Dirty

\* C13: after a successful cycle every pulled item is the one record stored
\* under its UUID, with the pulled wire fields and Dirty = FALSE, whatever was
\* stored under that UUID before
C13_PulledAreStored ==
    CycleDone =>
        \A i \in 1..Len(so.Items) :
            /\ Cardinality({r \in items : r.UUID = so.Items[i].UUID}) = 1
            /\ Carries(so.Items[i], Get(items, so.Items[i].UUID))
            /\ ~Get(items, so.Items[i].UUID).Dirty

\* the store held record B with the content the cycle pushed; the response
\* pulled B with another content, which is what the store holds now
C13_Witness ==
    /\ CycleDone
    /\ \E i \in 1..Len(so.Items) : \E j \in 1..Len(call.gSI.Items) :
            /\ so.Items[i].UUID = call.gSI.Items[j].UUID
            /\ so.Items[i].Content # call.gSI.Items[j].Content
            /\ Get(items, so.Items[i].UUID).Content = so.Items[i].Content
            /\ ~Get(items, so.Items[i].UUID).Dirty

\* the records Sync and initialiseDB store for a sequence of pulled items
StoredFor(pulled) == {ItemFromPulled(pulled[i]) : i \in 1..Len(pulled)}

\* C14: a bootstrap (DBPath, no DB) that creates the store on a location with
\* none calls the exchange once, with no token and an empty push batch; when
\* it returns without error the store holds exactly one record per pulled
\* item, under its UUID and with Dirty = FALSE, and exactly one SyncToken, the
\* one the exchange returned
C14_BootstrapNewStore ==
    [][(Called /\ call'.si = PathOnly /\ ~exists /\ exists')
        => /\ call'.exchanges = 1
           /\ call'.gSI = [Items |-> <<>>, SyncToken |-> NoToken]
           /\ err' = NoErr =>
                /\ so'.DB
                /\ items' = StoredFor(call'.pulled)
                /\ Cardinality(items') = Len(call'.pulled)
                /\ \A r \in items' : ~r.Dirty
                /\ tokens' = {lastTok'}
                /\ lastTok' \in Tokens]_vars

\* a bootstrap on a location with no store pulled two items and stored them
C14_Witness ==
    /\ last = "sync"
    /\ call.si = PathOnly
    /\ err = NoErr
    /\ streak = 1
    /\ Len(call.pulled) = 2
    /\ Cardinality(items) = 2
    /\ Cardinality(tokens) = 1

\* a bootstrap on a location with no store against a remote with no items
\* left 0 records and 1 token
C14_WitnessNoItems ==
    /\ last = "sync"
    /\ call.si = PathOnly
    /\ err = NoErr
    /\ streak = 1
    /\ call.pulled = <<>>
    /\ items = {}
    /\ Cardinality(tokens) = 1

\* C15: a bootstrap run again on the same location, the server returning the
\* same items, leaves the records the first run left: the record set after the
\* second run is the set after the first, with at most one record per UUID
C15_BootstrapTwice ==
    [][(Called /\ call'.repeat)
        => /\ items' = items
           /\ \A r1, r2 \in items' : r1.UUID = r2.UUID => r1 = r2]_vars

\* a second bootstrap on a location whose store held an edited record the
\* server does not return; both runs pulled the same one item
C15_Witness ==
    /\ last = "sync"
    /\ call.repeat
    /\ Len(call.pulled) = 1
    /\ Cardinality(items) = 2
    /\ \E r \in items : r.Dirty /\ r.UUID # call.pulled[1].UUID

\* C16: a cycle on a store with no dirty record whose response pulls no item
\* changes no record, and the token it leaves stored is the one the exchange
\* returned
C16_NothingButToken ==
    [][(Called /\ call'.si = HandleOnly /\ err' = NoErr
            /\ (\A r \in items : ~r.Dirty) /\ so'.Items = <<>>)
        => /\ items' = items
           /\ tokens' = {lastTok'}]_vars

\* C17: when a pushed record is returned as Unsaved and the same response
\* pulls an item with its UUID, after the cycle the record has the pulled
\* content and still Dirty = TRUE
C17_UnsavedPulledStaysDirty ==
    CycleDone =>
        \A i \in 1..Len(so.Unsaved) : \A j \in 1..Len(so.Items) :
            so.Items[j].UUID = so.Unsaved[i].UUID
                => /\ Has(items, so.Items[j].UUID)
                   /\ Get(items, so.Items[j].UUID).Content = so.Items[j].Content
                   /\ Get(items, so.Items[j].UUID).Dirty

\* the record stored under u differs from the one stored before the call in
\* Dirty and DirtiedDate at most
SameWireFields(u) ==
    /\ Has(items, u)
    /\ \A f \in WireFields : Get(items', u)[f] = Get(items, u)[f]

\* C18: within a cycle the flags of the pushed records are cleared before any
\* pulled item is written: when a call leaves a pushed record with its flag or
\* date not cleared, it has written no pulled item (every stored record has
\* the wire fields it had before the call).  And after a successful cycle a
\* record that is both in SavedItems and in the pulled Items has the pulled
\* content and Dirty = FALSE, wherever it stands in Items
C18_ClearBeforeWrite ==
    [][(Called /\ call'.si = HandleOnly /\ call'.exchanges = 1)
        => LET batch == call'.gSI.Items
           IN  /\ (\E j \in 1..Len(batch) : ~Clean(Get(items', batch[j].UUID)))
                    => \A r \in items' : SameWireFields(r.UUID)
               /\ err' = NoErr =>
                    \A i \in 1..Len(so'.SavedItems) : \A j \in 1..Len(so'.Items) :
                        so'.Items[j].UUID = so'.SavedItems[i].UUID
                            => /\ Carries(so'.Items[j], Get(items', so'.Items[j].UUID))
                               /\ Clean(Get(items', so'.Items[j].UUID))]_vars

\* a cycle pushed a record, and the response acknowledged it and pulled it with
\* another content as the second of two items; the store holds the pulled
\* content, not dirty
C18_Witness ==
    /\ CycleDone
    /\ Len(so.Items) = 2
    /\ Len(so.SavedItems) = 1
    /\ so.Items[2].UUID = so.SavedItems[1].UUID
    /\ so.Items[2].Content # so.SavedItems[1].Content
    /\ Get(items, so.Items[2].UUID).Content = so.Items[2].Content
    /\ Clean(Get(items, so.Items[2].UUID))

\* the clearing of a cycle failed on its second pushed record: the first is
\* clean, the second dirty, and no pulled item was written
C18_WitnessInterrupted ==
    /\ last = "sync"
    /\ call.si = HandleOnly
    /\ call.ok
    /\ err = ErrStore
    /\ Len(call.gSI.Items) = 2
    /\ Clean(Get(items, call.gSI.Items[1].UUID))
    /\ Get(items, call.gSI.Items[2].UUID).Dirty

\* C19: after a call of Sync on an existing handle returns without error, no
\* record of the store has Dirty = TRUE
C19_NothingDirtyAfterSync == CycleDone => \A r \in items : ~r.Dirty

\* a cycle pushed two dirty records, the server saved one of them and pulled
\* nothing, and the call returned without error: neither record is dirty
C19_Witness ==
    /\ CycleDone
    /\ Len(call.gSI.Items) = 2
    /\ Len(so.SavedItems) = 1
    /\ Len(so.Unsaved) = 1
    /\ so.Items = <<>>
    /\ Cardinality(items) = 2
    /\ \A r \in items : ~r.Dirty

Ids(its) == {r.UUID : r \in its}

\* C20: no call of Sync, whatever its arguments and whether it fails or not,
\* removes a record: every id stored before the call is stored after it.  An
\* item pulled with Deleted = TRUE by a call that returns without error is
\* stored under its id with Deleted = TRUE
C20_NoRecordRemoved ==
    [][Called
        => /\ Ids(items) \subseteq Ids(items')
           /\ err' = NoErr =>
                \A i \in 1..Len(call'.pulled) :
                    call'.pulled[i].Deleted
                        => /\ Has(items', call'.pulled[i].UUID)
                           /\ Get(items', call'.pulled[i].UUID).Deleted]_vars

\* a cycle pushed a record and pulled its deletion: the record is stored, with
\* Deleted = TRUE
C20_Witness ==
    /\ CycleDone
    /\ \E i \in 1..Len(call.pulled) : \E j \in 1..Len(call.gSI.Items) :
            /\ call.pulled[i].UUID = call.gSI.Items[j].UUID
            /\ call.pulled[i].Deleted
            /\ ~call.gSI.Items[j].Deleted
            /\ Has(items, call.pulled[i].UUID)
            /\ Get(items, call.pulled[i].UUID).Deleted

(***************************************************************************)
(* Cycles repeated after a store failure.  A store holds edited and pulled *)
(* records; Sync is called on its handle until it returns without error,   *)
(* a store write failing while a call applies its results.  Nothing is     *)
(* edited between the calls and the remote does not change: every call     *)
(* pulls the same items and gets the same token.                           *)
(***************************************************************************)

MaxRetries == 3

\* the records a store can hold under a UUID: an edited one or a pulled one
RecordsOf(u) ==
    {DirtyItem(EncryptedItem(u, c, FALSE)) : c \in Contents}
        \cup {ItemFromPulled(x) : x \in {y \in ServerItems : y.UUID = u}}

Stores ==
    {st \in SUBSET (UNION {RecordsOf(u) : u \in UUIDs}) :
        \A u \in UUIDs : Cardinality({r \in st : r.UUID = u}) <= 1}

InitRetry ==
    /\ exists = TRUE
    /\ items \in Stores
    /\ tokens \in {{}} \cup {{t} : t \in Tokens}
    /\ so = NoSO
    /\ err = NoErr
    /\ call = [si |-> [valid |-> FALSE, hasDB |-> FALSE, hasPath |-> FALSE],
               exchanges |-> 0, ok |-> FALSE, gSI |-> NoGSI, nTokens |-> 0,
               priorTok |-> NoToken, pulled |-> <<>>, repeat |-> FALSE]
    /\ steps = 0
    /\ last = "init"
    /\ lastTok = NoToken
    /\ streak = -1
    /\ \E p \in PullSeqs, t \in Tokens, a \in SUBSET DirtyIds :
            retry = [before |-> items, ack |-> a, Items |-> p, SyncToken |-> t,
                     failAt |-> 0, failures |-> 0]
    /\ inflight = <<>>

\* Sync(SyncInput{DB: db, Session: valid}), the first call or a repetition of
\* a failed one; the server saves any of the items a repeated call pushes.
\* One of the store writes that apply the result fails (the calls of
\* UpdateField and Save, which follow Find and All), or none
RetryCycle ==
    /\ steps < MaxRetries
    /\ last = "sync" => err # NoErr
    /\ \E a \in (IF last = "init" THEN {retry.ack} ELSE SUBSET DirtyIds) :
        \E e \in {[ok |-> TRUE, ack |-> a,
                   Items |-> retry.Items, SyncToken |-> retry.SyncToken]} :
            \E failAt \in {0} \cup 3..Ops(HandleOnly, e) :
                /\ Call(HandleOnly, e, failAt)
                /\ retry' = [retry EXCEPT
                                !.failAt = failAt,
                                !.failures = @ + (IF failAt = 0 THEN 0 ELSE 1)]
    /\ UNCHANGED inflight

SpecRetry == InitRetry /\ [][RetryCycle]_vars

\* the store a cycle that does not fail leaves, called on the records the run
\* started with (the sync tokens a cycle reads do not bear on the records)
NoFailure ==
    SyncCall(HandleOnly,
             [exists |-> TRUE, items |-> retry.before, tokens |-> {},
              n |-> 0, failAt |-> 0, err |-> NoErr],
             [ok |-> TRUE, ack |-> retry.ack, Items |-> retry.Items,
              SyncToken |-> retry.SyncToken]).s

\* the records with their wire fields and Dirty flag
ContentAndFlags(its) == {[f \in WireFields \cup {"Dirty"} |-> r[f]] : r \in its}

\* C21: a call in which a store write fails while it applies the result
\* returns the store error; when the call is repeated until it returns without
\* error, nothing edited and the remote unchanged in between, the store holds
\* the records, with the content and Dirty flags, that a cycle without failure
\* leaves
C21_RetryGivesSameRecords ==
    /\ last = "sync" => err = (IF retry.failAt = 0 THEN NoErr ELSE ErrStore)
    /\ (last = "sync" /\ err = NoErr)
            => ContentAndFlags(items) = ContentAndFlags(NoFailure.items)

\* the first call failed while clearing flags, the second while saving pulled
\* items, the third returned without error
C21_Witness ==
    /\ last = "sync"
    /\ err = NoErr
    /\ retry.failures = 2
    /\ \E r \in retry.before : r.Dirty
    /\ Len(retry.Items) = 2
    /\ items # retry.before

\* C24: a call of Sync with a DBPath on a location that holds a store loses no
\* pending write: every record with Dirty = TRUE before the call is stored
\* after it with Dirty = TRUE and its local content, also when the pull
\* returns an item with its UUID
C24_BootstrapKeepsPending ==
    [][(Called /\ call'.si = PathOnly /\ exists)
        => \A r \in items :
                r.Dirty => /\ Has(items', r.UUID)
                           /\ Get(items', r.UUID).Dirty
                           /\ Get(items', r.UUID).Content = r.Content]_vars

\* C25: a call of Sync on an existing handle leaves as it was every record
\* that is not dirty when the call starts and that is not among the pulled
\* items of the response: all its fields, Dirty and DirtiedDate included, are
\* the same after the call, whether the call returns an error or not
C25_OtherRecordsUntouched ==
    [][(Called /\ call'.si = HandleOnly)
        => \A r \in items :
                (/\ ~r.Dirty
                 /\ \A i \in 1..Len(so'.Items) : so'.Items[i].UUID # r.UUID)
                    => r \in items']_vars

\* a cycle pushed the one dirty record and pulled an item with its UUID; the
\* store holds a second record, neither pushed nor pulled
C25_Witness ==
    /\ CycleDone
    /\ Len(call.gSI.Items) = 1
    /\ Len(so.Items) = 1
    /\ so.Items[1].UUID = call.gSI.Items[1].UUID
    /\ Cardinality(items) = 2

(***************************************************************************)
(* Calls of Sync in flight.  A call on the handle is a sequence of store   *)
(* operations, each one storm transaction, with gosn.Sync after the second:*)
(*   Find dirty; All sync tokens and the exchange; two UpdateField per     *)
(* dirty record read; one Save per pulled item; Save of the token.         *)
(* Two calls on the same handle interleave at these operations, and so     *)
(* does application code that saves an edited record.  inflight[p] is the  *)
(* state of call p: the statement it is at (pc), what it has read (dirty), *)
(* sent (gSI) and received (gSO), the number k of writes it has applied,   *)
(* and what it returns (so, err).  Store failures are left to the          *)
(* sequential model.                                                       *)
(***************************************************************************)

Calls == {1, 2}

MaxPullInFlight == 1

Idle ==
    [pc |-> "idle", dirty |-> <<>>, gSI |-> NoGSI,
     gSO |-> GosnSync(NoGSI, NoResponse), k |-> 0, so |-> NoSO, err |-> NoErr,
     stale |-> FALSE, edits |-> {}]

\* the store as the store operations take it, no operation failing
Store == [exists |-> exists, items |-> items, tokens |-> tokens,
          n |-> 0, failAt |-> 0, err |-> NoErr]

\* a store with records and at most one sync token, no call in flight
InitInFlight ==
    /\ exists = TRUE
    /\ items \in Stores
    /\ tokens \in {{}, {1}}
    /\ so = NoSO
    /\ err = NoErr
    /\ call = [si |-> [valid |-> FALSE, hasDB |-> FALSE, hasPath |-> FALSE],
               exchanges |-> 0, ok |-> FALSE, gSI |-> NoGSI, nTokens |-> 0,
               priorTok |-> NoToken, pulled |-> <<>>, repeat |-> FALSE]
    /\ steps = 0
    /\ last = "init"
    /\ lastTok = NoToken
    /\ streak = -1
    /\ retry = NoRetry
    /\ inflight = [p \in Calls |-> Idle]

\* err = si.DB.Find("Dirty", true, &dirty)
FindStep(p) ==
    /\ inflight[p].pc = "idle"
    /\ inflight' = [inflight EXCEPT ![p] =
                        [@ EXCEPT !.pc = "tokens", !.dirty = FindDirty(Store).out]]
    /\ UNCHANGED <<exists, items, tokens, so, err, call, steps, last, lastTok,
                   streak, retry>>

\* the server saves every pushed item and returns at most MaxPullInFlight items
ResponsesInFlight(pushed) ==
    {NoResponse}
        \cup [ok : {TRUE}, ack : {pushed}, Items : PullSeqsUpTo(MaxPullInFlight),
              SyncToken : Tokens]

\* err = si.DB.All(&syncTokens), the choice of the token, the conversion of
\* dirty and gSO, err = gosn.Sync(gSI)
ExchangeStep(p) ==
    /\ inflight[p].pc = "tokens"
    /\ LET dirty == inflight[p].dirty
           syncTokens == AllSyncTokens(Store).out
           syncToken == IF Len(syncTokens) = 1 THEN syncTokens[1] ELSE NoToken
           gSI == [Items |-> ItemsToPush(dirty, 1), SyncToken |-> syncToken]
       IN  \E e \in ResponsesInFlight({dirty[i].UUID : i \in 1..Len(dirty)}) :
             inflight' = [inflight EXCEPT ![p] =
                [@ EXCEPT !.pc = IF e.ok THEN "apply" ELSE "done",
                          !.gSI = gSI,
                          !.gSO = GosnSync(gSI, e),
                          !.err = GosnSync(gSI, e).err,
                          !.stale = \E i \in 1..Len(dirty) :
                                        ~Get(items, dirty[i].UUID).Dirty]]
    /\ UNCHANGED <<exists, items, tokens, so, err, call, steps, last, lastTok,
                   streak, retry>>

\* the k-th store write after the exchange: the UpdateField calls of the loop
\* over dirty, then the Save calls of the loop over gSO.Items, then the Save
\* of the sync token
Write(c, k) ==
    LET nd == Len(c.dirty)
        np == Len(c.gSO.Items)
    IN  IF k <= 2 * nd
        THEN UpdateField(Store, c.dirty[(k + 1) \div 2].UUID,
                         IF k % 2 = 1 THEN "Dirty" ELSE "DirtiedDate",
                         IF k % 2 = 1 THEN FALSE ELSE ZeroTime)
        ELSE IF k <= 2 * nd + np
        THEN SaveItem(Store, ItemFromPulled(c.gSO.Items[k - 2 * nd]))
        ELSE SaveSyncToken(Store, c.gSO.SyncToken)

Writes(c) == 2 * Len(c.dirty) + Len(c.gSO.Items) + 1

\* the next store write of call p; after the last one Sync returns
WriteStep(p) ==
    /\ inflight[p].pc = "apply"
    /\ LET c == inflight[p]
           s == Write(c, c.k + 1)
       IN  /\ items' = s.items
           /\ tokens' = s.tokens
           /\ inflight' = [inflight EXCEPT ![p] =
                [@ EXCEPT !.k = c.k + 1,
                          !.pc = IF c.k + 1 = Writes(c) THEN "done" ELSE "apply",
                          !.err = s.err,
                          !.so = IF c.k + 1 > 2 * Len(c.dirty)
                                 THEN [Items |-> c.gSO.Items,
                                       SavedItems |-> c.gSO.SavedItems,
                                       Unsaved |-> c.gSO.Unsaved, DB |-> TRUE]
                                 ELSE c.so]]
    /\ UNCHANGED <<exists, so, err, call, steps, last, lastTok, streak, retry>>

SyncStep(p) == FindStep(p) \/ ExchangeStep(p) \/ WriteStep(p)

\* two calls of Sync on the same handle, nothing edited meanwhile
NextOverlap == \E p \in Calls : SyncStep(p)

SpecOverlap == InitInFlight /\ [][NextOverlap]_vars

\* call p has read the dirty records
HasRead(p) == inflight[p].pc # "idle"

\* call p pushes the record stored under u
Pushes(p, u) ==
    /\ inflight[p].pc \in {"apply", "done"}
    /\ \E i \in 1..Len(inflight[p].gSI.Items) : inflight[p].gSI.Items[i].UUID = u

C22_WitnessNotSerial ==
    /\ \A p \in Calls : inflight[p].pc = "done" /\ inflight[p].err = NoErr
    /\ Len(inflight[1].gSO.Items) = 1
    /\ Len(inflight[2].gSO.Items) = 1
    /\ inflight[1].gSO.Items[1].UUID = inflight[2].gSO.Items[1].UUID
    /\ inflight[1].gSO.Items[1] # inflight[2].gSO.Items[1]
    /\ ItemFromPulled(inflight[1].gSO.Items[1]) \in items
    /\ inflight[1].gSO.SyncToken # inflight[2].gSO.SyncToken
    /\ inflight[1].gSI.SyncToken = inflight[2].gSI.SyncToken
    /\ \E u \in UUIDs : Pushes(1, u) /\ Pushes(2, u)

\* application code saves an edited record while call 1 is in flight: after
\* the call has read the dirty records and before it returns
EditInFlight(u, c) ==
    /\ inflight[1].pc \in {"tokens", "apply"}
    /\ inflight[1].edits = {}
    /\ items' = {r \in items : r.UUID # u}
                    \cup {DirtyItem(EncryptedItem(u, c, FALSE))}
    /\ inflight' = [inflight EXCEPT ![1] = [@ EXCEPT !.edits = {<<u, c>>}]]
    /\ UNCHANGED <<exists, tokens, so, err, call, steps, last, lastTok, streak,
                   retry>>

\* one call of Sync on the handle and one edit while it is in flight
NextEdit == SyncStep(1) \/ \E u \in UUIDs, c \in Contents : EditInFlight(u, c)

SpecEdit == InitInFlight /\ [][NextEdit]_vars

\* C23: a record that application code saves with Dirty = TRUE and new content
\* after Sync has read the dirty records and before Sync returns is stored,
\* when Sync returns, with Dirty = TRUE and the edited content
C23_EditInFlightKept ==
    inflight[1].pc = "done"
        => \A ed \in inflight[1].edits :
                /\ Has(items, ed[1])
                /\ Get(items, ed[1]).Dirty
                /\ Get(items, ed[1]).Content = ed[2]

TypeOK ==
    /\ exists \in BOOLEAN
    /\ \A r \in items : r.UUID \in UUIDs /\ r.Dirty \in BOOLEAN
    /\ tokens \subseteq Tokens
    /\ ~exists => items = {} /\ tokens = {}

====
